---- MODULE Spec2Model ----
(***************************************************************************)
(* The driver of vmp-import-resolver (main.cpp) as a state machine.  One   *)
(* action per statement group of main(); the results of the calls main()   *)
(* makes into the process, the PE reader and the vmp library are inputs    *)
(* chosen at the call.  pc is main()'s position, result its return value.  *)
(***************************************************************************)
EXTENDS Integers, Sequences, FiniteSets

VARIABLES
    pc,             \* position of main()
    result,         \* "none" while running, then "failure" / "success"
    err,            \* what the last spdlog::error named: [kind, name]
    trace,          \* the calls made so far, in order: [stage, arg, ok]
    vmp_sections,   \* config_ctx.vmp_sections
    present,        \* the looked-up section names the static image contains
    machine,        \* image->nt_headers()->file_header.machine
    is_x64,         \* local is_x64
    ctx_constructs, \* number of calls of vmp::construct_context
    ctx_is_64_bit,  \* the argument the context was constructed with
    vm_mapped,      \* section buffers handed to vmp::map_sections
    imports,        \* vmp::context->imports
    import_calls,   \* local import_calls
    map_sections,   \* local map_sections (the section each buffer holds)
    idx,            \* position of the loop over config_ctx.vmp_sections
    mapped_modules, \* *mapped_modules
    imp_idx,        \* position of the loop over vmp::context->imports
    iat,            \* vmp::iat_t iat: its entries
    add_calls,      \* per processed record, the add_import calls it caused
    image_ops,      \* operations performed on vmp_image: [op, ok]
    dumped          \* the output image was written

vars == <<pc, result, err, trace, vmp_sections, present, machine, is_x64,
          ctx_constructs, ctx_is_64_bit, vm_mapped, imports, import_calls,
          map_sections, idx, mapped_modules, imp_idx, iat, add_calls,
          image_ops, dumped>>

cfgVars   == <<vmp_sections, present, machine, is_x64>>
ctxVars   == <<ctx_constructs, ctx_is_64_bit, vm_mapped, imports>>
scanVars  == <<import_calls, map_sections, idx>>
iatVars   == <<mapped_modules, imp_idx, iat, add_calls>>
imageVars == <<image_ops, dumped>>

----------------------------------------------------------------------------
(* Bounds of the model *)

PtrBits == 2
MaxImports == 2
MaxExports == 2

----------------------------------------------------------------------------
(* Input domains *)

Modulus == 2 ^ PtrBits
Half == 2 ^ (PtrBits - 1)
MaxAddr == Modulus - 1

TextSection == ".text"
SectionNames == {".vmp0", ".vmp1"}
MachineIds == {"amd64", "i386", "arm64"}

\* module bases, module-relative export addresses, traced import targets
Bases == {0, Half}
ExportVas == {Half - 1, MaxAddr}
TargetVas == {Half - 1, Half, MaxAddr}

ModuleNames == <<"kernel32.dll", "ntdll.dll", "user32.dll", "advapi32.dll">>
ExportNames == <<"Sleep", "SleepEx", "Beep", "ExitProcess">>

Range(s) == {s[i] : i \in 1..Len(s)}

SeqsUpTo(S, n) == UNION {[1..k -> S] : k \in 0..n}

\* a configuration names each protected section at most once
SectionLists == {s \in SeqsUpTo(SectionNames, Cardinality(SectionNames)) :
                    \A i, j \in 1..Len(s) : i # j => s[i] # s[j]}

\* the export tables: MaxExports symbols each, addresses may coincide
ExportLists == {[j \in 1..MaxExports |-> [name |-> ExportNames[j], va |-> s[j]]] :
                    s \in [1..MaxExports -> ExportVas]}

\* the modules of one process are loaded at distinct bases
ModuleLists ==
    {[i \in 1..Len(s) |-> [name |-> ModuleNames[i], base |-> s[i].base,
                           exports |-> s[i].exports]] :
        s \in {t \in SeqsUpTo([base : Bases, exports : ExportLists], Cardinality(Bases)) :
                  \A i, j \in 1..Len(t) : i # j => t[i].base # t[j].base}}

NoErr == [kind |-> "none", name |-> ""]
Event(stage, arg, ok) == [stage |-> stage, arg |-> arg, ok |-> ok]

\* positions of the trace at which the given call was made
Calls(stage) == {i \in 1..Len(trace) : trace[i].stage = stage}

----------------------------------------------------------------------------
Init ==
    /\ pc = "parse_args"
    /\ result = "none"
    /\ err = NoErr
    /\ trace = <<>>
    /\ vmp_sections = <<>>
    /\ present = {}
    /\ machine = "unknown"
    /\ is_x64 = FALSE
    /\ ctx_constructs = 0
    /\ ctx_is_64_bit = FALSE
    /\ vm_mapped = <<>>
    /\ imports = <<>>
    /\ import_calls = <<>>
    /\ map_sections = <<>>
    /\ idx = 1
    /\ mapped_modules = <<>>
    /\ imp_idx = 1
    /\ iat = <<>>
    /\ add_calls = <<>>
    /\ image_ops = <<>>
    /\ dumped = FALSE

\* spdlog::error(...); return EXIT_FAILURE;
Fail(stage, arg, kind, name) ==
    /\ pc' = "done"
    /\ result' = "failure"
    /\ err' = [kind |-> kind, name |-> name]
    /\ trace' = Append(trace, Event(stage, arg, FALSE))

\* the call returned normally: main() goes on at next
Pass(stage, arg, next) ==
    /\ pc' = next
    /\ trace' = Append(trace, Event(stage, arg, TRUE))
    /\ UNCHANGED <<result, err>>

ParseArgs ==
    /\ pc = "parse_args"
    /\ \E ok \in BOOLEAN :
        IF ok THEN Pass("parse_args", 0, "parse_toml")
              ELSE Fail("parse_args", 0, "arg_parser", "")
    /\ UNCHANGED <<cfgVars, ctxVars, scanVars, iatVars, imageVars>>

ParseToml ==
    /\ pc = "parse_toml"
    /\ \/ /\ \E s \in SectionLists : vmp_sections' = s
          /\ Pass("parse_toml", 0, "find_process_id")
       \/ /\ Fail("parse_toml", 0, "exception", "")
          /\ UNCHANGED vmp_sections
    /\ UNCHANGED <<present, machine, is_x64, ctxVars, scanVars, iatVars, imageVars>>

FindProcessId ==
    /\ pc = "find_process_id"
    /\ \E ok \in BOOLEAN :
        IF ok THEN Pass("find_process_id", 0, "attach")
              ELSE Fail("find_process_id", 0, "process_id", "")
    /\ UNCHANGED <<cfgVars, ctxVars, scanVars, iatVars, imageVars>>

Attach ==
    /\ pc = "attach"
    /\ \E ok \in BOOLEAN :
        IF ok THEN Pass("attach", 0, "find_module")
              ELSE Fail("attach", 0, "attach", "")
    /\ UNCHANGED <<cfgVars, ctxVars, scanVars, iatVars, imageVars>>

FindModule ==
    /\ pc = "find_module"
    /\ \E ok \in BOOLEAN :
        IF ok THEN Pass("find_module", 0, "load_file")
              ELSE Fail("find_module", 0, "module", "")
    /\ UNCHANGED <<cfgVars, ctxVars, scanVars, iatVars, imageVars>>

LoadFile ==
    /\ pc = "load_file"
    /\ \/ /\ \E p \in SUBSET ({TextSection} \cup Range(vmp_sections)) : present' = p
          /\ \E m \in MachineIds : machine' = m
          /\ Pass("load_file", 0, "machine")
       \/ /\ Fail("load_file", 0, "load_file", "")
          /\ UNCHANGED <<present, machine>>
    /\ UNCHANGED <<vmp_sections, is_x64, ctxVars, scanVars, iatVars, imageVars>>

\* MachineSwitch without the break of case amd64: control falls into case i386
MachineSwitchFallthrough ==
    /\ pc = "machine"
    /\ IF machine \in {"amd64", "i386"}
         THEN is_x64' = FALSE /\ Pass("machine", 0, "construct_context")
         ELSE /\ Fail("machine", 0, "machine", "")
              /\ UNCHANGED is_x64
    /\ UNCHANGED <<vmp_sections, present, machine, ctxVars, scanVars, iatVars, imageVars>>

MachineSwitch ==
    /\ pc = "machine"
    /\ IF machine = "amd64"
         THEN is_x64' = TRUE /\ Pass("machine", 0, "construct_context")
       ELSE IF machine = "i386"
         THEN is_x64' = FALSE /\ Pass("machine", 0, "construct_context")
       ELSE /\ Fail("machine", 0, "machine", "")
            /\ UNCHANGED is_x64
    /\ UNCHANGED <<vmp_sections, present, machine, ctxVars, scanVars, iatVars, imageVars>>

\* vmp::construct_context(is_x64), inside try
ConstructContext ==
    /\ pc = "construct_context"
    /\ ctx_constructs' = ctx_constructs + 1
    /\ ctx_is_64_bit' = is_x64
    /\ \E ok \in BOOLEAN :
        IF ok THEN Pass("construct_context", 0, "compute_sections")
              ELSE Fail("construct_context", 0, "exception", "")
    /\ UNCHANGED <<cfgVars, vm_mapped, imports, scanVars, iatVars, imageVars>>

\* vmp::compute_sections(config_ctx.vmp_sections, module->address, image), inside try
ComputeSections ==
    /\ pc = "compute_sections"
    /\ \E ok \in BOOLEAN :
        IF ok THEN Pass("compute_sections", 0, "find_text")
              ELSE Fail("compute_sections", 0, "exception", "")
    /\ UNCHANGED <<cfgVars, ctxVars, scanVars, iatVars, imageVars>>

FindText ==
    /\ pc = "find_text"
    /\ IF TextSection \in present
         THEN Pass("find_text", 0, "read_text")
         ELSE Fail("find_text", 0, "find_section", TextSection)
    /\ UNCHANGED <<cfgVars, ctxVars, scanVars, iatVars, imageVars>>

\* ReadText followed by the section loop, the call of scan_import_calls left out
ReadTextSkipsScan ==
    /\ pc = "read_text"
    /\ \E ok \in BOOLEAN :
        IF ok THEN Pass("read", 0, "sections")
              ELSE Fail("read", 0, "read", "")
    /\ UNCHANGED <<cfgVars, ctxVars, scanVars, iatVars, imageVars>>

ReadText ==
    /\ pc = "read_text"
    /\ \E ok \in BOOLEAN :
        IF ok THEN Pass("read", 0, "scan_import_calls")
              ELSE Fail("read", 0, "read", "")
    /\ UNCHANGED <<cfgVars, ctxVars, scanVars, iatVars, imageVars>>

\* import_calls = scan_import_calls(address, temp_buffer); map_sections.emplace_back(...)
ScanImportCalls ==
    /\ pc = "scan_import_calls"
    /\ \E n \in 0..MaxImports : import_calls' = [i \in 1..n |-> i]
    /\ map_sections' = Append(map_sections, TextSection)
    /\ idx' = 1
    /\ Pass("scan_import_calls", 0, "sections")
    /\ UNCHANGED <<cfgVars, ctxVars, iatVars, imageVars>>

\* FindSection with continue in place of return EXIT_FAILURE
FindSectionSkips ==
    /\ pc = "sections"
    /\ idx <= Len(vmp_sections)
    /\ IF vmp_sections[idx] \in present
         THEN Pass("find_section", idx, "read_section") /\ UNCHANGED idx
         ELSE /\ pc' = "sections"
              /\ idx' = idx + 1
              /\ err' = [kind |-> "find_section", name |-> vmp_sections[idx]]
              /\ trace' = Append(trace, Event("find_section", idx, TRUE))
              /\ UNCHANGED result
    /\ UNCHANGED <<cfgVars, ctxVars, import_calls, map_sections, iatVars, imageVars>>

\* loop head and image->find_section(vmp_section)
FindSection ==
    /\ pc = "sections"
    /\ idx <= Len(vmp_sections)
    /\ IF vmp_sections[idx] \in present
         THEN Pass("find_section", idx, "read_section")
         ELSE Fail("find_section", idx, "find_section", vmp_sections[idx])
    /\ UNCHANGED <<cfgVars, ctxVars, scanVars, iatVars, imageVars>>

\* ReadSection that reads again after a failed read
ReadSectionRetries ==
    /\ pc = "read_section"
    /\ \/ /\ map_sections' = Append(map_sections, vmp_sections[idx])
          /\ idx' = idx + 1
          /\ Pass("read", idx, "sections")
       \/ /\ Cardinality(Calls("read")) <= Len(vmp_sections) + 1
          /\ pc' = "read_section"
          /\ trace' = Append(trace, Event("read", idx, FALSE))
          /\ UNCHANGED <<result, err, map_sections, idx>>
    /\ UNCHANGED <<cfgVars, ctxVars, import_calls, iatVars, imageVars>>

ReadSection ==
    /\ pc = "read_section"
    /\ \/ /\ map_sections' = Append(map_sections, vmp_sections[idx])
          /\ idx' = idx + 1
          /\ Pass("read", idx, "sections")
       \/ /\ Fail("read", idx, "read", "")
          /\ UNCHANGED <<map_sections, idx>>
    /\ UNCHANGED <<cfgVars, ctxVars, import_calls, iatVars, imageVars>>

\* MapSections whose catch block does not return
MapSectionsSwallows ==
    /\ pc = "sections"
    /\ idx > Len(vmp_sections)
    /\ \/ /\ vm_mapped' = map_sections
          /\ Pass("map_sections", 0, "process_import_calls")
       \/ /\ pc' = "process_import_calls"
          /\ err' = [kind |-> "exception", name |-> ""]
          /\ trace' = Append(trace, Event("map_sections", 0, FALSE))
          /\ UNCHANGED <<result, vm_mapped>>
    /\ UNCHANGED <<cfgVars, ctx_constructs, ctx_is_64_bit, imports, scanVars, iatVars, imageVars>>

\* vmp::map_sections(map_sections), inside try
MapSections ==
    /\ pc = "sections"
    /\ idx > Len(vmp_sections)
    /\ \/ /\ vm_mapped' = map_sections
          /\ Pass("map_sections", 0, "process_import_calls")
       \/ /\ Fail("map_sections", 0, "exception", "")
          /\ UNCHANGED vm_mapped
    /\ UNCHANGED <<cfgVars, ctx_constructs, ctx_is_64_bit, imports, scanVars, iatVars, imageVars>>

\* vmp::process_import_calls: one ImportRecord per call site, in call-site order
process_import_calls(calls, targets) ==
    [i \in 1..Len(calls) |-> [call_site_va |-> calls[i], target_va |-> targets[i]]]

\* vmp::process_import_calls(import_calls, module->address), inside try
ProcessImportCalls ==
    /\ pc = "process_import_calls"
    /\ \/ /\ \E t \in [1..Len(import_calls) -> TargetVas] :
                imports' = imports \o process_import_calls(import_calls, t)
          /\ Pass("process_import_calls", 0, "modules_local_mapped")
       \/ /\ Fail("process_import_calls", 0, "exception", "")
          /\ UNCHANGED imports
    /\ UNCHANGED <<cfgVars, ctx_constructs, ctx_is_64_bit, vm_mapped, scanVars, iatVars, imageVars>>

ModulesLocalMapped ==
    /\ pc = "modules_local_mapped"
    /\ \/ /\ \E m \in ModuleLists : mapped_modules' = m
          /\ imp_idx' = 1
          /\ Pass("modules_local_mapped", 0, "iat_loop")
       \/ /\ Fail("modules_local_mapped", 0, "modules", "")
          /\ UNCHANGED <<mapped_modules, imp_idx>>
    /\ UNCHANGED <<cfgVars, ctxVars, scanVars, iat, add_calls, imageVars>>

\* std::uintptr_t subtraction
Sub(a, b) == (a - b + Modulus) % Modulus

\* ExportLoop without the break after a match
RECURSIVE ExportLoopNoBreak(_, _, _, _)
ExportLoopNoBreak(exports, j, possible_import_va, module_name) ==
    IF j > Len(exports) THEN <<>>
    ELSE (IF possible_import_va = exports[j].va
            THEN << <<module_name, exports[j].name>> >> ELSE <<>>)
         \o ExportLoopNoBreak(exports, j + 1, possible_import_va, module_name)

\* the loop over mapped_image->exports(): the add_import calls it makes
RECURSIVE ExportLoop(_, _, _, _)
ExportLoop(exports, j, possible_import_va, module_name) ==
    IF j > Len(exports) THEN <<>>
    ELSE IF possible_import_va = exports[j].va
        THEN << <<module_name, exports[j].name>> >>
        ELSE ExportLoop(exports, j + 1, possible_import_va, module_name)

\* ModuleLoop without the break after a module that matched
RECURSIVE ModuleLoopNoBreak(_, _, _)
ModuleLoopNoBreak(modules, i, import_address) ==
    IF i > Len(modules) THEN <<>>
    ELSE ExportLoop(modules[i].exports, 1,
                    Sub(import_address, modules[i].base), modules[i].name)
         \o ModuleLoopNoBreak(modules, i + 1, import_address)

\* the loop over *mapped_modules with the break at the first module that matched
RECURSIVE ModuleLoop(_, _, _)
ModuleLoop(modules, i, import_address) ==
    IF i > Len(modules) THEN <<>>
    ELSE LET calls == ExportLoop(modules[i].exports, 1,
                                 Sub(import_address, modules[i].base), modules[i].name)
         IN  IF calls # <<>> THEN calls
             ELSE ModuleLoop(modules, i + 1, import_address)

\* vmp::iat_t::add_import: the table keeps one entry per (module, symbol)
add_import(table, entry) ==
    IF entry \in Range(table) THEN table ELSE Append(table, entry)

RECURSIVE AddAll(_, _)
AddAll(table, calls) ==
    IF calls = <<>> THEN table
    ELSE AddAll(add_import(table, Head(calls)), Tail(calls))

\* one iteration of: for (const auto& import : vmp::context->imports)
IatLoopStep ==
    /\ pc = "iat_loop"
    /\ imp_idx <= Len(imports)
    /\ LET calls == ModuleLoop(mapped_modules, 1, imports[imp_idx].target_va)
       IN  /\ iat' = AddAll(iat, calls)
           /\ add_calls' = Append(add_calls, calls)
    /\ imp_idx' = imp_idx + 1
    /\ Pass("iat_match", imp_idx, "iat_loop")
    /\ UNCHANGED <<cfgVars, ctxVars, scanVars, mapped_modules, imageVars>>

\* vmp::image_t vmp_image(module->address); vmp_image.initialize_memory_pe(...)
InitializeMemoryPe ==
    /\ pc = "iat_loop"
    /\ imp_idx > Len(imports)
    /\ \E ok \in BOOLEAN :
        /\ image_ops' = Append(image_ops, [op |-> "initialize_memory_pe", ok |-> ok])
        /\ IF ok THEN Pass("initialize_memory_pe", 0, "reconstruct")
                 ELSE Fail("initialize_memory_pe", 0, "exception", "")
    /\ UNCHANGED <<cfgVars, ctxVars, scanVars, iatVars, dumped>>

\* Reconstruct outside the try block's protection: a failure does not stop the dump
ReconstructSwallows ==
    /\ pc = "reconstruct"
    /\ \E ok \in BOOLEAN :
        /\ image_ops' = Append(image_ops, [op |-> "reconstruct", ok |-> ok])
        /\ pc' = "dump_to_fs"
        /\ trace' = Append(trace, Event("reconstruct", 0, ok))
        /\ UNCHANGED <<result, err>>
    /\ UNCHANGED <<cfgVars, ctxVars, scanVars, iatVars, dumped>>

\* iat.reconstruct(&vmp_image, config_ctx.iat_section_name)
Reconstruct ==
    /\ pc = "reconstruct"
    /\ \E ok \in BOOLEAN :
        /\ image_ops' = Append(image_ops, [op |-> "reconstruct", ok |-> ok])
        /\ IF ok THEN Pass("reconstruct", 0, "dump_to_fs")
                 ELSE Fail("reconstruct", 0, "exception", "")
    /\ UNCHANGED <<cfgVars, ctxVars, scanVars, iatVars, dumped>>

\* vmp_image.dump_to_fs(config_ctx.dump_path); return EXIT_SUCCESS;
DumpToFs ==
    /\ pc = "dump_to_fs"
    /\ \E ok \in BOOLEAN :
        /\ image_ops' = Append(image_ops, [op |-> "dump_to_fs", ok |-> ok])
        /\ dumped' = ok
        /\ IF ok THEN /\ pc' = "done"
                      /\ result' = "success"
                      /\ trace' = Append(trace, Event("dump_to_fs", 0, TRUE))
                      /\ UNCHANGED err
                 ELSE Fail("dump_to_fs", 0, "exception", "")
    /\ UNCHANGED <<cfgVars, ctxVars, scanVars, iatVars>>

Next ==
    \/ ParseArgs
    \/ ParseToml
    \/ FindProcessId
    \/ Attach
    \/ FindModule
    \/ LoadFile
    \/ MachineSwitch
    \/ ConstructContext
    \/ ComputeSections
    \/ FindText
    \/ ReadText
    \/ ScanImportCalls
    \/ FindSection
    \/ ReadSection
    \/ MapSections
    \/ ProcessImportCalls
    \/ ModulesLocalMapped
    \/ IatLoopStep
    \/ InitializeMemoryPe
    \/ Reconstruct
    \/ DumpToFs

Spec == Init /\ [][Next]_vars

----------------------------------------------------------------------------
(* Vocabulary of the properties *)

Done == pc = "done"

Returned(stage) == \E i \in Calls(stage) : trace[i].ok

\* the absolute address of export j of a module, in pointer arithmetic
ExportAddress(m, j) == (m.base + m.exports[j].va) % Modulus

MatchingExports(m, target_va) ==
    {j \in 1..Len(m.exports) : ExportAddress(m, j) = target_va}

MatchingModules(target_va) ==
    {i \in 1..Len(mapped_modules) : MatchingExports(mapped_modules[i], target_va) # {}}

Min(S) == CHOOSE x \in S : \A y \in S : x <= y

Resolvable(target_va) == MatchingModules(target_va) # {}

ModulesKnown == Returned("modules_local_mapped")

----------------------------------------------------------------------------
\* C1: when some import record matches no export of any mapped module, the run
\* fails: the IAT section is never added to the output image and no output
\* image is written.
C1_UnresolvedImportFails ==
    (Done /\ ModulesKnown
          /\ \E k \in 1..Len(imports) : ~Resolvable(imports[k].target_va))
    => /\ result = "failure"
       /\ ~dumped
       /\ \A i \in 1..Len(image_ops) :
            image_ops[i].op = "reconstruct" => ~image_ops[i].ok

\* C2: every processed record causes at most one add_import, and that one names
\* the first module in enumeration order with an export at target_va and the
\* first such export of that module; a record without a match causes none.
C2_FirstMatchWins ==
    \A k \in 1..Len(add_calls) :
        LET t == imports[k].target_va
        IN  /\ Len(add_calls[k]) <= 1
            /\ IF Resolvable(t)
                 THEN LET i0 == Min(MatchingModules(t))
                          j0 == Min(MatchingExports(mapped_modules[i0], t))
                      IN  add_calls[k] =
                            << <<mapped_modules[i0].name,
                                 mapped_modules[i0].exports[j0].name>> >>
                 ELSE add_calls[k] = <<>>

\* a processed record that two modules export, the first of them twice
C2_Witness ==
    \E k \in 1..Len(add_calls) :
        LET t == imports[k].target_va
        IN  /\ Cardinality(MatchingModules(t)) >= 2
            /\ Cardinality(MatchingExports(mapped_modules[Min(MatchingModules(t))], t)) >= 2
            /\ Len(add_calls[k]) = 1

----------------------------------------------------------------------------
StageOrder == <<"compute_sections", "scan_import_calls", "map_sections",
                "process_import_calls", "iat_match", "initialize_memory_pe",
                "reconstruct", "dump_to_fs">>

IsStage(e) == e.stage \in Range(StageOrder)
RankOf == [s \in Range(StageOrder) |->
              CHOOSE r \in 1..Len(StageOrder) : StageOrder[r] = s]

\* the stages a call needs to have returned before it: all earlier ones, but
\* the matching loop, which makes no iteration when there is no record
Needs == [r \in 1..Len(StageOrder) |->
              {StageOrder[q] : q \in {n \in 1..(r - 1) : StageOrder[n] # "iat_match"}}]

C4_FailFast ==
    /\ \A i \in 1..(Len(trace) - 1) : trace[i].ok
    /\ (Len(trace) > 0 /\ ~trace[Len(trace)].ok) => (Done /\ result = "failure")
    /\ result = "failure" =>
         (Done /\ ~dumped /\ Len(trace) > 0 /\ ~trace[Len(trace)].ok
               /\ err.kind # "none")
    /\ result = "success" => (Done /\ dumped)
    /\ Done <=> result # "none"

\* a run that failed in the middle of the pipeline, at the resolver
C4_Witness ==
    /\ result = "failure"
    /\ trace[Len(trace)].stage = "process_import_calls"
    /\ Len(vm_mapped) >= 2

ImageLifecycle == <<"initialize_memory_pe", "reconstruct", "dump_to_fs">>

C6_ImageLifecycle ==
    /\ Len(image_ops) <= Len(ImageLifecycle)
    /\ \A i \in 1..Len(image_ops) :
         /\ image_ops[i].op = ImageLifecycle[i]
         /\ i < Len(image_ops) => image_ops[i].ok
    /\ dumped => (Len(image_ops) = Len(ImageLifecycle) /\ image_ops[Len(image_ops)].ok)
    /\ (Len(image_ops) > 0 /\ ~image_ops[Len(image_ops)].ok) => Done
    /\ result = "success" => dumped
    /\ pc \in {"reconstruct", "dump_to_fs"} => Len(image_ops) >= 1

\* the image was initialized, rebuilt and written
C6_Witness ==
    /\ dumped
    /\ Len(image_ops) = 3
    /\ Len(iat) >= 1

\* C7: when the matching loop is over the table has no entry twice and holds
\* as many entries as there are distinct resolvable targets among the
\* records, while the context holds one record per call site.
LoopOver == ModulesKnown /\ imp_idx > Len(imports)

ResolvedTargets ==
    {imports[k].target_va : k \in {n \in 1..Len(imports) : Resolvable(imports[n].target_va)}}

C8_NoReadRetry ==
    /\ \A i, j \in Calls("read") : i # j => trace[i].arg # trace[j].arg
    /\ Cardinality(Calls("read")) <= 1 + Len(vmp_sections)
    /\ \A i \in Calls("read") :
         ~trace[i].ok =>
            /\ i = Len(trace)
            /\ Done /\ result = "failure" /\ err.kind = "read"
            /\ vm_mapped = <<>>
            /\ imports = <<>>

\* the read of the second protected section failed
C8_Witness ==
    /\ Len(trace) > 0
    /\ trace[Len(trace)] = Event("read", 2, FALSE)

\* C9: the context is constructed at most once, with is_64_bit true exactly
\* for amd64; an unsupported machine ends the run before construct and before
\* any stage; with a supported machine construct is called once before every
\* pipeline stage.
Supported == {"amd64", "i386"}

AfterConstruct == {"compute_sections", "find_text", "read", "scan_import_calls",
                   "find_section", "map_sections", "process_import_calls",
                   "modules_local_mapped", "iat_match", "initialize_memory_pe",
                   "reconstruct", "dump_to_fs"}

C9_ContextOnce ==
    /\ ctx_constructs <= 1
    /\ ctx_constructs = Cardinality(Calls("construct_context"))
    /\ ctx_constructs = 1 =>
         (machine \in Supported /\ (ctx_is_64_bit <=> machine = "amd64"))
    /\ (Returned("load_file") /\ machine \notin Supported) =>
         /\ ctx_constructs = 0
         /\ pc \in {"machine", "done"}
         /\ \A i \in 1..Len(trace) : trace[i].stage \notin AfterConstruct
         /\ Done => result = "failure"
    /\ \A i \in 1..Len(trace) :
         trace[i].stage \in AfterConstruct =>
            \E j \in Calls("construct_context") : j < i /\ trace[j].ok
    /\ (Returned("machine") /\ pc # "construct_context") => ctx_constructs = 1

\* a 64-bit image whose run went through the whole pipeline
C9_Witness ==
    /\ result = "success"
    /\ machine = "amd64"
    /\ ctx_is_64_bit
    /\ ctx_constructs = 1

\* C10: a record that caused an add_import naming module M has its target_va
\* at or above M's base.
C10_NoMatchBelowBase ==
    \A k \in 1..Len(add_calls) :
        \A i \in 1..Len(mapped_modules) :
            (add_calls[k] # <<>> /\ add_calls[k][1][1] = mapped_modules[i].name)
                => imports[k].target_va >= mapped_modules[i].base
====
